---- MODULE Spec2Model ----
(***************************************************************************)
(* State machine of oblivion.py's dispatch core: the shard lifecycle        *)
(* (_start_shard / _stop_shard), the per-webhook delivery loop              *)
(* (_webhook_loop / _send_webhook), the sequential-mode monitor             *)
(* (_monitor_sequential_mode) and the start/stop handlers of OblivionGUI.   *)
(*                                                                         *)
(* Threads are interleaved at the points where they touch shared state or  *)
(* block: every step below is one read or one write of shared state (with   *)
(* the thread-local work around it), or the end of a blocking call.         *)
(***************************************************************************)
EXTENDS Integers, Sequences, FiniteSets, TLC

\* ---------------------------------------------------------------- configuration
\* self.message_limit: per-webhook cap read by the delivery loop.
message_limit == 2
\* self.total_pings: shard total that makes the monitor rotate.
total_pings == 2
\* self.max_retries: range() of the attempt loop of _send_webhook.
max_retries == 2
\* At most this many Thread objects per webhook (live or still registered).
MaxUnits == 2
\* At most this many threads, in a whole run, outlive the join(timeout=5) of a stop.
MaxLeaks == 1
\* At most this many start/stop requests of the caller in a parallel-mode run.
MaxCalls == 3
\* At most this many start/stop requests of the caller in a sequential-mode run.
MaxSeqCalls == 2
\* At most this many hand-offs of the monitors in a sequential-mode run.
MaxSeqRotations == 2
\* At most this many parallel-mode starts beside a sequential run.
MaxMixCalls == 1
\* At most this many parallel-mode starts in a run that mixes the two modes.
MaxBusyStarts == 1

\* At most this many start/stop requests of the caller in a run whose joins
\* may all time out.
MaxStopCalls == 2
\* Hand-offs of a run over one shard are counted up to this many.
MaxSoloRotations == 2
\* At most this many start/stop requests of the caller in a run over one shard.
MaxCancelCalls == 3
\* At most this many requests of the caller (starts, edits of the form) in a run
\* with edits of the form.
MaxFormCalls == 3

\* Largest retry_after, in milliseconds, a 429 response carries.
MaxRetryAfter == 60
\* DEFAULT_CONFIG['rate_limit_backoff'], in seconds.
rate_limit_backoff == 60

\* Python's None (self.current_switch_shard when idle).
None == "None"

AllShards == {"A", "B", "C"}

AllUrls == {"a1", "b1", "c1"}

\* Shard maps as loaded by _load_webhooks: an ordered dict, name -> list of URLs.
PairMap == <<[name |-> "A", urls |-> <<"a1">>], [name |-> "B", urls |-> <<"b1">>]>>

ThreeShardMap == <<[name |-> "A", urls |-> <<"a1">>], [name |-> "B", urls |-> <<"b1">>],
                   [name |-> "C", urls |-> <<"c1">>]>>

\* A webhooks file with a single shard.
SoloMap == <<[name |-> "A", urls |-> <<"a1">>]>>

\* A webhooks file whose first shard has two webhooks and whose second has one.
WideMap == <<[name |-> "A", urls |-> <<"a1", "b1">>], [name |-> "B", urls |-> <<"c1">>]>>

VARIABLES
    webhook_groups,        \* self.webhook_groups: ordered map, shard name -> urls
    shard_status,          \* self.shard_status: name -> running flag (absent = False)
    message_counts,        \* self.message_counts: url -> count (absent = 0)
    units,                 \* per url, the delivery threads (live, or dead but still in self.threads)
    current_switch_shard,  \* self.current_switch_shard
    mode,                  \* self.mode
    gui,                   \* the Tk main thread: the handler it is in
    monitors,              \* the _monitor_sequential_mode threads alive
    monitor_failed,        \* some monitor thread ended with an uncaught exception
    leaked,                \* threads that outlived the join of a stop so far
    calls,                 \* start/stop requests made so far
    rotations,             \* hand-offs begun by the monitors so far
    response_body,         \* response.json() of the 429 response a unit is handling
    retry_after,           \* retry_after of _send_webhook: the argument of its time.sleep
    message_var,           \* self.message_var: the Message entry of the window
    username_var,          \* self.username_var
    avatar_var,            \* self.avatar_var
    delay_var,             \* self.delay_var, in seconds
    call                   \* one call of _send_webhook followed on its own, with its requests and sleeps

\* The counters that bound a run; no operation of the program reads them.
budget == <<calls, rotations, leaked>>

\* The locals of the 429 branch of _send_webhook, followed on their own.
backoff == <<response_body, retry_after, call>>

\* The Tk variables of the entries _start_shard reads.
form == <<message_var, username_var, avatar_var, delay_var>>

vars == <<webhook_groups, shard_status, message_counts, units, current_switch_shard, mode,
          gui, monitors, monitor_failed, leaked, calls, rotations, response_body, retry_after,
          message_var, username_var, avatar_var, delay_var, call>>

\* ---------------------------------------------------------------- helpers
RemoveAt(q, k) == SubSeq(q, 1, k - 1) \o SubSeq(q, k + 1, Len(q))

\* list(self.webhook_groups.keys())
shard_names == [n \in DOMAIN webhook_groups |-> webhook_groups[n].name]

Shards == {webhook_groups[n].name : n \in DOMAIN webhook_groups}

\* self.webhook_groups[name]
GroupUrls(name) == webhook_groups[CHOOSE n \in DOMAIN webhook_groups : webhook_groups[n].name = name].urls

InShard(s) == {GroupUrls(s)[n] : n \in DOMAIN GroupUrls(s)}

\* The shard_name argument of the loop that delivers to the webhook.
ShardOf(u) == CHOOSE s \in Shards : u \in InShard(s)

IsLive(x) == x.pc # "dead"

IsLiveRegistered(x) == x.pc # "dead" /\ x.reg

Unregistered(x) == [x EXCEPT !.reg = FALSE]

RECURSIVE MapUnreg(_)
MapUnreg(q) == IF q = <<>> THEN <<>> ELSE <<Unregistered(Head(q))>> \o MapUnreg(Tail(q))

RECURSIVE SumCounts(_, _)
\* sum(self.message_counts.get(url, 0) for url in webhook_urls)
SumCounts(q, counts) == IF q = <<>> THEN 0 ELSE counts[Head(q)] + SumCounts(Tail(q), counts)

RECURSIVE SumOver(_, _)
SumOver(S, f) == IF S = {} THEN 0 ELSE LET x == CHOOSE y \in S : TRUE IN f[x] + SumOver(S \ {x}, f)

\* self.shard_status.get(name, False)
StatusGet(st, name) == st[name]

\* any(self.shard_status.values())
AnyRunning(st) == \E k \in DOMAIN st : st[k]

\* The selected shards in the order of self.shard_states (the map's order).
InOrder(S) == SelectSeq(shard_names, LAMBDA s : s \in S)

\* The threads of a webhook still alive.
LiveUnits(u) == SelectSeq(units[u], IsLive)

\* The live threads of a shard that are in self.threads[shard].
LiveRegistered(s) == SumOver(InShard(s), [u \in AllUrls |-> Len(SelectSeq(units[u], IsLiveRegistered))])

\* A float as the quotient of two integers; den = 0 stands for "not computed".
NoWait == [num |-> 0, den |-> 0]

\* A JSON object as its set of <<key, value>> pairs.
EmptyBody == {}

\* DEFAULT_CONFIG, the entries _start_shard reads (delay 2.5 = 5/2 seconds).
DEFAULT_CONFIG ==
    [message |-> "@everyone", username |-> "Oblivion V1", avatar_url |-> "blob-cat-ping.gif",
     delay |-> [num |-> 5, den |-> 2]]

\* message, username, avatar_url, delay = getattr(self, '..._var').get()
FormGet ==
    [message |-> message_var, username |-> username_var, avatar_url |-> avatar_var,
     delay |-> delay_var]

\* No arguments held: the locals of a handler that is not in _start_shard.
NoArgs == [message |-> "", username |-> "", avatar_url |-> "", delay |-> NoWait]

\* No request under way.
NoPayload == {}

\* _send_webhook: payload = {"content": message}, with username and avatar_url
\* added when they are not empty.
Payload(a) ==
    {<<"content", a.message>>}
    \cup (IF a.username # "" THEN {<<"username", a.username>>} ELSE {})
    \cup (IF a.avatar_url # "" THEN {<<"avatar_url", a.avatar_url>>} ELSE {})

\* A new threading.Thread(target=self._webhook_loop, args=(webhook_url, message,
\* username, avatar_url, delay, shard_name)), appended to self.threads[shard].
\* args are the arguments of the loop; payload is the JSON of the request of
\* the cycle under way; ret is the value the last _send_webhook returned and
\* sleep the argument of time.sleep(delay), both held while the thread sleeps.
NewUnit(args) ==
    [pc |-> "check", attempt |-> 0, loc |-> 0, reg |-> TRUE, ret |-> "none",
     args |-> args, payload |-> NoPayload, sleep |-> NoWait]

\* A registry reset that ends the threads it drops.
ClearRegistryKills(us, s) == [u \in AllUrls |-> IF u \in InShard(s) THEN <<>> ELSE us[u]]

\* self.threads[shard_name] = []: the shard's Thread handles are dropped from the
\* registry; a dead thread then no longer exists anywhere.
ClearRegistry(us, s) ==
    [u \in AllUrls |-> IF u \in InShard(s) THEN MapUnreg(SelectSeq(us[u], IsLive)) ELSE us[u]]

GuiIdle == [pc |-> "idle", op |-> "none", todo |-> <<>>, s |-> None, i |-> 0, loc |-> 0,
            res |-> "none", args |-> NoArgs]

\* ---------------------------------------------------------------- initial state
\* OblivionGUI.__init__ with the shard map the webhooks file holds.
InitCore(map) ==
    /\ webhook_groups = map
    /\ shard_status = [s \in AllShards \cup {None} |-> FALSE]
    /\ message_counts = [u \in AllUrls |-> 0]
    /\ units = [u \in AllUrls |-> <<>>]
    /\ current_switch_shard = None
    /\ gui = GuiIdle
    /\ monitors = <<>>
    /\ monitor_failed = FALSE
    /\ leaked = 0
    /\ calls = 0
    /\ rotations = 0
    /\ message_var = DEFAULT_CONFIG.message
    /\ username_var = DEFAULT_CONFIG.username
    /\ avatar_var = DEFAULT_CONFIG.avatar_url
    /\ delay_var = DEFAULT_CONFIG.delay

\* No call of _send_webhook is followed.
NoCall == [pc |-> "none"]

InitWith(map) ==
    InitCore(map) /\ response_body = EmptyBody /\ retry_after = NoWait /\ call = NoCall

Init == InitWith(PairMap) /\ mode = "parallel"

\* ---------------------------------------------------------------- delivery unit
\* A _send_webhook that builds its payload from the entries of the window.
SendWebhookEnterLive(x) ==
    IF max_retries > 0
    THEN [x EXCEPT !.pc = "post", !.attempt = 0, !.ret = "none", !.sleep = NoWait,
                   !.payload = Payload(FormGet)]
    ELSE [x EXCEPT !.ret = "False", !.sleep = x.args.delay]

\* Entering _send_webhook: range(self.max_retries) is empty when max_retries = 0,
\* and the call returns False without a request.
SendWebhookEnter(x) ==
    IF max_retries > 0
    THEN [x EXCEPT !.pc = "post", !.attempt = 0, !.ret = "none", !.sleep = NoWait,
                   !.payload = Payload(x.args)]
    ELSE [x EXCEPT !.ret = "False", !.sleep = x.args.delay]

\* The thread of a unit ends: its handle stays in self.threads while registered.
Terminate(q, k) ==
    IF q[k].reg
    THEN [q EXCEPT ![k] = [pc |-> "dead", attempt |-> 0, loc |-> 0, reg |-> TRUE, ret |-> "none",
                           args |-> NoArgs, payload |-> NoPayload, sleep |-> NoWait]]
    ELSE RemoveAt(q, k)

\* A loop condition that does not look at the running flag.
LoopIgnoresFlag(u) == message_counts[u] < message_limit

\* A loop condition that lets a thread post at the cap.
LoopContinuesAtCap(u) ==
    StatusGet(shard_status, ShardOf(u)) /\ message_counts[u] <= message_limit

\* while self.shard_status.get(shard_name, False) and
\*       self.message_counts.get(webhook_url, 0) < self.message_limit
LoopContinues(u) ==
    StatusGet(shard_status, ShardOf(u)) /\ message_counts[u] < message_limit

UnitLoopCheck(u, k) ==
    /\ k \in DOMAIN units[u]
    /\ units[u][k].pc = "check"
    /\ units' = IF LoopContinues(u)
                THEN [units EXCEPT ![u][k] = SendWebhookEnter(@)]
                ELSE [units EXCEPT ![u] = Terminate(@, k)]
    /\ UNCHANGED <<budget, backoff, form, webhook_groups, shard_status, message_counts, current_switch_shard, mode, gui,
                   monitors, monitor_failed>>

Responses == {"204", "429", "other", "exception"}

\* An attempt loop whose exhaustion ends the thread.
NextAttemptDies(x) ==
    IF x.attempt + 1 < max_retries
    THEN [x EXCEPT !.attempt = x.attempt + 1]
    ELSE [x EXCEPT !.pc = "dead", !.attempt = 0, !.ret = "False"]

\* The attempt loop after a response that does not return: the for loop moves
\* to the next attempt; when range(self.max_retries) is exhausted the call
\* returns False ("Max retries reached") and the loop sleeps its delay.
NextAttempt(x) ==
    IF x.attempt + 1 < max_retries
    THEN [x EXCEPT !.attempt = x.attempt + 1]
    ELSE [x EXCEPT !.pc = "check", !.attempt = 0, !.ret = "False", !.payload = NoPayload,
                   !.sleep = x.args.delay]

\* A _send_webhook that goes on to the next attempt after a rejected status.
AfterResponseRetries(x, r, count) ==
    CASE r = "204" -> [x EXCEPT !.pc = "write", !.attempt = 0, !.loc = count]
      [] r = "429" -> NextAttempt(x)
      [] r = "other" -> NextAttempt(x)
      [] r = "exception" -> NextAttempt(x)

\* One requests.post of _send_webhook and the branch taken on its outcome.
AfterResponse(x, r, count) ==
    CASE r = "204" -> [x EXCEPT !.pc = "write", !.attempt = 0, !.loc = count]
      [] r = "429" -> NextAttempt(x)
      [] r = "other" -> [x EXCEPT !.pc = "check", !.attempt = 0, !.ret = "False",
                                  !.payload = NoPayload, !.sleep = x.args.delay]
      [] r = "exception" -> NextAttempt(x)

UnitResponse(u, k, r) ==
    /\ k \in DOMAIN units[u]
    /\ units[u][k].pc = "post"
    /\ units' = [units EXCEPT ![u][k] = AfterResponse(@, r, message_counts[u])]
    /\ UNCHANGED <<budget, backoff, form, webhook_groups, shard_status, message_counts, current_switch_shard, mode, gui,
                   monitors, monitor_failed>>

\* self.message_counts[webhook_url] = <value read> + 1, then return True and
\* time.sleep(delay).
UnitWrite(u, k) ==
    /\ k \in DOMAIN units[u]
    /\ units[u][k].pc = "write"
    /\ message_counts' = [message_counts EXCEPT ![u] = units[u][k].loc + 1]
    /\ units' = [units EXCEPT ![u][k] = [@ EXCEPT !.pc = "check", !.loc = 0, !.ret = "True",
                                                  !.payload = NoPayload,
                                                  !.sleep = units[u][k].args.delay]]
    /\ UNCHANGED <<budget, backoff, form, webhook_groups, shard_status, current_switch_shard, mode, gui, monitors, monitor_failed>>

\* dict.get(key, default) on a JSON object.
DictGet(d, key, default) ==
    IF \E p \in d : p[1] = key THEN (CHOOSE p \in d : p[1] = key)[2] ELSE default

\* retry_after = response.json().get('retry_after', self.rate_limit_backoff) / 1000
RetryAfter(body) == [num |-> DictGet(body, "retry_after", rate_limit_backoff), den |-> 1000]

\* The 429 branch of _send_webhook on the response body at hand, up to time.sleep(retry_after).
RateLimitWait ==
    /\ retry_after = NoWait
    /\ retry_after' = RetryAfter(response_body)
    /\ UNCHANGED <<budget, form, response_body, call, webhook_groups, shard_status, message_counts, units,
                   current_switch_shard, mode, gui, monitors, monitor_failed>>

\* A retry loop that sleeps the back-off after every transport failure.
SleepsOfAlways(x, r, body) ==
    CASE r = "429" -> <<RetryAfter(body)>>
      [] r = "exception" -> <<[num |-> rate_limit_backoff, den |-> 1]>>
      [] OTHER -> <<>>

\* The time.sleep calls of one attempt of _send_webhook: time.sleep(retry_after)
\* after a 429, time.sleep(self.rate_limit_backoff) after a transport failure
\* when attempt < self.max_retries - 1.
SleepsOf(x, r, body) ==
    CASE r = "429" -> <<RetryAfter(body)>>
      [] r = "exception" /\ x.attempt < max_retries - 1 -> <<[num |-> rate_limit_backoff, den |-> 1]>>
      [] OTHER -> <<>>

\* The webhook of the call that is followed.
CallUrl == "a1"

\* A thread of CallUrl enters _send_webhook; outcomes are the outcomes of the
\* requests the call has issued, sleeps the arguments of its time.sleep calls.
CallEnter ==
    SendWebhookEnter(NewUnit(DEFAULT_CONFIG)) @@ [outcomes |-> <<>>, sleeps |-> <<>>]

\* One iteration of the for loop of the call: requests.post, the branch taken
\* on its outcome and the sleep of that branch.
CallAttempt(r) ==
    /\ call.pc = "post"
    /\ call' = [AfterResponse(call, r, message_counts[CallUrl]) EXCEPT
                    !.outcomes = Append(call.outcomes, r),
                    !.sleeps = call.sleeps \o SleepsOf(call, r, response_body)]
    /\ UNCHANGED <<budget, form, response_body, retry_after, webhook_groups, shard_status,
                   message_counts, units, current_switch_shard, mode, gui, monitors, monitor_failed>>

\* The store of the 204 branch and return True.
CallStore ==
    /\ call.pc = "write"
    /\ message_counts' = [message_counts EXCEPT ![CallUrl] = call.loc + 1]
    /\ call' = [call EXCEPT !.pc = "check", !.loc = 0, !.ret = "True", !.payload = NoPayload,
                            !.sleep = call.args.delay]
    /\ UNCHANGED <<budget, form, response_body, retry_after, webhook_groups, shard_status,
                   units, current_switch_shard, mode, gui, monitors, monitor_failed>>

\* A for loop that makes one attempt more than range(n) holds.
NextAttemptInOver(n, x) ==
    IF x.attempt < n
    THEN [x EXCEPT !.attempt = x.attempt + 1]
    ELSE [x EXCEPT !.pc = "check", !.attempt = 0, !.ret = "False", !.payload = NoPayload,
                   !.sleep = x.args.delay]

\* for attempt in range(n), after an outcome that does not return: the next
\* attempt, or "Max retries reached" and return False when range(n) is used up.
NextAttemptIn(n, x) ==
    IF x.attempt + 1 < n
    THEN [x EXCEPT !.attempt = x.attempt + 1]
    ELSE [x EXCEPT !.pc = "check", !.attempt = 0, !.ret = "False", !.payload = NoPayload,
                   !.sleep = x.args.delay]

\* A thread of CallUrl enters _send_webhook while self.max_retries is n: with
\* n = 0 range(n) is empty and the call returns False without a request.
CycleEnter(n) ==
    (IF n > 0
     THEN [NewUnit(DEFAULT_CONFIG) EXCEPT !.pc = "post", !.payload = Payload(DEFAULT_CONFIG)]
     ELSE [NewUnit(DEFAULT_CONFIG) EXCEPT !.ret = "False", !.sleep = DEFAULT_CONFIG.delay])
    @@ [limit |-> n, outcomes |-> <<>>, sleeps |-> <<>>]

\* One iteration of the for loop of a call entered with limit call.limit:
\* requests.post, the branch taken on its outcome and the time.sleep of that
\* branch (retry_after on a 429, the back-off on a transport failure with
\* attempts left).
CycleAttempt(r) ==
    /\ call.pc = "post"
    /\ call' = [(CASE r = "204" -> [call EXCEPT !.pc = "write", !.attempt = 0,
                                                !.loc = message_counts[CallUrl]]
                   [] r = "other" -> [call EXCEPT !.pc = "check", !.attempt = 0, !.ret = "False",
                                                  !.payload = NoPayload,
                                                  !.sleep = call.args.delay]
                   [] OTHER -> NextAttemptIn(call.limit, call))
                 EXCEPT !.outcomes = Append(call.outcomes, r),
                        !.sleeps = call.sleeps \o
                            (CASE r = "429" -> <<RetryAfter(response_body)>>
                               [] r = "exception" /\ call.attempt < call.limit - 1 ->
                                      <<[num |-> rate_limit_backoff, den |-> 1]>>
                               [] OTHER -> <<>>)]
    /\ UNCHANGED <<budget, form, response_body, retry_after, webhook_groups, shard_status,
                   message_counts, units, current_switch_shard, mode, gui, monitors, monitor_failed>>

\* ---------------------------------------------------------------- shard runner
\* _start_shard, first two statements: self.shard_status[shard_name] = True and
\* self.threads[shard_name] = [].
StartShardStatus(st, s) == [st EXCEPT ![s] = TRUE]

StartShardRegistry(us, s) == IF s \in Shards THEN ClearRegistry(us, s) ELSE us

\* _start_shard, loop body, right-hand side: self.message_counts.get(webhook_url, 0).
SpawnReadCount(u) == message_counts[u]

\* _start_shard, loop body, the store of the value read, then Thread(...),
\* self.threads[shard_name].append(thread) and thread.start().
SpawnStore(counts, u, v) == [counts EXCEPT ![u] = v]

SpawnThread(us, u, args) == [us EXCEPT ![u] = Append(@, NewUnit(args))]

CanSpawn(u) == Len(units[u]) < MaxUnits

\* A _stop_shard without the early return.
StopIsNoopNever(st, name) == FALSE

\* _stop_shard: the early return when the shard is not running.
StopIsNoop(st, name) == ~StatusGet(st, name)

\* A stop that clears the running flag of every shard.
StopShardStatusAll(st, s) == [x \in DOMAIN st |-> FALSE]

\* A stop that leaves the flag as it is.
StopShardStatusKept(st, s) == st

\* _stop_shard: self.shard_status[shard_name] = False.
StopShardStatus(st, s) == [st EXCEPT ![s] = FALSE]

\* ---------------------------------------------------------------- GUI thread
\* on_mode_selected: self.mode.set(...).
SetMode(m) ==
    /\ gui.pc = "idle"
    /\ m # mode
    /\ mode' = m
    /\ UNCHANGED <<budget, backoff, form, webhook_groups, shard_status, message_counts, units, current_switch_shard, gui,
                   monitors, monitor_failed>>

\* The user types in an entry of the Settings tab: the Tk variable bound to it
\* changes, in the main thread, between two handlers.
Messages == {DEFAULT_CONFIG.message, "hello"}

Usernames == {DEFAULT_CONFIG.username, ""}

Avatars == {DEFAULT_CONFIG.avatar_url, ""}

Delays == {DEFAULT_CONFIG.delay, [num |-> 1, den |-> 1]}

SetMessageVar(v) ==
    /\ gui.pc = "idle"
    /\ v # message_var
    /\ message_var' = v
    /\ UNCHANGED <<username_var, avatar_var, delay_var, webhook_groups, shard_status, message_counts,
                   units, current_switch_shard, mode, gui, monitors, monitor_failed>>

SetUsernameVar(v) ==
    /\ gui.pc = "idle"
    /\ v # username_var
    /\ username_var' = v
    /\ UNCHANGED <<message_var, avatar_var, delay_var, webhook_groups, shard_status, message_counts,
                   units, current_switch_shard, mode, gui, monitors, monitor_failed>>

SetAvatarVar(v) ==
    /\ gui.pc = "idle"
    /\ v # avatar_var
    /\ avatar_var' = v
    /\ UNCHANGED <<message_var, username_var, delay_var, webhook_groups, shard_status, message_counts,
                   units, current_switch_shard, mode, gui, monitors, monitor_failed>>

SetDelayVar(v) ==
    /\ gui.pc = "idle"
    /\ v # delay_var
    /\ delay_var' = v
    /\ UNCHANGED <<message_var, username_var, avatar_var, webhook_groups, shard_status, message_counts,
                   units, current_switch_shard, mode, gui, monitors, monitor_failed>>

\* A check that rejects only a selection whose shards are all running.
StartParallelVerdictAll(S) ==
    IF S = {} THEN "no_selection"
    ELSE IF \A s \in S : StatusGet(shard_status, s) THEN "already_running"
    ELSE "ok"

\* _start_parallel_mode: the two checks before any shard is started.
StartParallelVerdict(S) ==
    IF S = {} THEN "no_selection"
    ELSE IF \E s \in S : StatusGet(shard_status, s) THEN "already_running"
    ELSE "ok"

\* _start_action in parallel mode -> _start_parallel_mode, up to the for loop.
StartParallel(S) ==
    /\ gui.pc = "idle"
    /\ mode = "parallel"
    /\ gui' = IF StartParallelVerdict(S) = "ok"
              THEN [GuiIdle EXCEPT !.pc = "start_shard", !.op = "startpar",
                                   !.todo = InOrder(S), !.res = "ok"]
              ELSE [GuiIdle EXCEPT !.op = "startpar", !.res = StartParallelVerdict(S)]
    /\ UNCHANGED <<webhook_groups, shard_status, message_counts, units, current_switch_shard, mode,
                   monitors, monitor_failed>>

\* for shard in selected_shards: self._start_shard(shard), its first statements.
GuiStartShard ==
    /\ gui.pc = "start_shard"
    /\ LET s == Head(gui.todo) IN
         /\ shard_status' = StartShardStatus(shard_status, s)
         /\ units' = StartShardRegistry(units, s)
         /\ gui' = [gui EXCEPT !.pc = "spawn_read", !.s = s, !.i = 1, !.todo = Tail(gui.todo),
                               !.args = FormGet]
    /\ UNCHANGED <<budget, backoff, form, webhook_groups, message_counts, current_switch_shard, mode, monitors, monitor_failed>>

GuiSpawnRead ==
    /\ gui.pc = "spawn_read"
    /\ gui' = [gui EXCEPT !.pc = "spawn_write", !.loc = SpawnReadCount(GroupUrls(gui.s)[gui.i])]
    /\ UNCHANGED <<budget, backoff, form, webhook_groups, shard_status, message_counts, units, current_switch_shard, mode,
                   monitors, monitor_failed>>

\* threading.Thread(target=self._monitor_sequential_mode, daemon=True).start()
NewMonitor == [pc |-> "loop", urls |-> None, s |-> None, nxt |-> None, i |-> 0, loc |-> 0,
               args |-> NoArgs]

\* The GUI thread after the last thread of a shard was started: the next shard
\* of the selection, or (sequential) the monitor thread, then back to the mainloop.
GuiAfterStart(g) ==
    IF g.op = "startpar" /\ g.todo # <<>>
    THEN [g EXCEPT !.pc = "start_shard", !.s = None, !.i = 0, !.loc = 0, !.args = NoArgs]
    ELSE [GuiIdle EXCEPT !.res = g.res]

GuiSpawnWrite ==
    /\ gui.pc = "spawn_write"
    /\ LET u == GroupUrls(gui.s)[gui.i]
           last == gui.i = Len(GroupUrls(gui.s)) IN
         /\ CanSpawn(u)
         /\ message_counts' = SpawnStore(message_counts, u, gui.loc)
         /\ units' = SpawnThread(units, u, gui.args)
         /\ gui' = IF last THEN GuiAfterStart(gui)
                   ELSE [gui EXCEPT !.pc = "spawn_read", !.i = gui.i + 1, !.loc = 0]
         /\ monitors' = IF last /\ gui.op = "startseq" THEN Append(monitors, NewMonitor)
                        ELSE monitors
    /\ UNCHANGED <<budget, backoff, form, webhook_groups, shard_status, current_switch_shard, mode, monitor_failed>>

\* _stop_parallel_mode: the check before any shard is stopped.
StopParallelVerdict(S) ==
    IF ~(\E s \in S : StatusGet(shard_status, s)) THEN "not_running" ELSE "ok"

\* _stop_action in parallel mode -> _stop_parallel_mode, up to the for loop.
StopParallel(S) ==
    /\ gui.pc = "idle"
    /\ mode = "parallel"
    /\ gui' = IF StopParallelVerdict(S) = "ok"
              THEN [GuiIdle EXCEPT !.pc = "stop_shard", !.op = "stoppar",
                                   !.todo = InOrder(S), !.res = "ok"]
              ELSE [GuiIdle EXCEPT !.res = StopParallelVerdict(S)]
    /\ UNCHANGED <<webhook_groups, shard_status, message_counts, units, current_switch_shard, mode,
                   monitors, monitor_failed>>

\* The GUI thread after one _stop_shard of the selection returned.
GuiAfterStop(g) ==
    IF g.todo # <<>> THEN [g EXCEPT !.pc = "stop_shard", !.s = None]
    ELSE [GuiIdle EXCEPT !.res = g.res]

\* for shard in selected_shards: self._stop_shard(shard), up to the joins.
GuiStopShard ==
    /\ gui.pc = "stop_shard"
    /\ LET s == Head(gui.todo)
           g == [gui EXCEPT !.todo = Tail(gui.todo)] IN
         IF StopIsNoop(shard_status, s)
         THEN /\ gui' = GuiAfterStop(g)
              /\ UNCHANGED shard_status
         ELSE /\ shard_status' = StopShardStatus(shard_status, s)
              /\ gui' = [g EXCEPT !.pc = "join", !.s = s]
    /\ UNCHANGED <<budget, backoff, form, webhook_groups, message_counts, units, current_switch_shard, mode, monitors,
                   monitor_failed>>

\* _stop_shard after the joins: self.threads[shard_name] = [].
GuiJoin ==
    /\ gui.pc = "join"
    /\ units' = ClearRegistry(units, gui.s)
    /\ gui' = GuiAfterStop(gui)
    /\ UNCHANGED <<webhook_groups, shard_status, message_counts, current_switch_shard, mode, monitors,
                   monitor_failed>>

\* A check that looks at the flag of the active shard only.
StartSequentialVerdictActive ==
    IF StatusGet(shard_status, current_switch_shard) THEN "already_running" ELSE "ok"

\* _start_sequential_mode: the check before anything is started.
StartSequentialVerdict == IF AnyRunning(shard_status) THEN "already_running" ELSE "ok"

\* _start_action in sequential mode -> _start_sequential_mode, up to the
\* assignment of self.current_switch_shard.
StartSequential(s) ==
    /\ gui.pc = "idle"
    /\ mode = "sequential"
    /\ gui' = IF StartSequentialVerdict = "ok"
              THEN [GuiIdle EXCEPT !.pc = "seq_begin", !.op = "startseq", !.s = s, !.res = "ok"]
              ELSE [GuiIdle EXCEPT !.op = "startseq", !.res = StartSequentialVerdict]
    /\ UNCHANGED <<webhook_groups, shard_status, message_counts, units, current_switch_shard, mode,
                   monitors, monitor_failed>>

\* self.current_switch_shard = shard_name; self._start_shard(shard_name), its
\* first statements.
GuiSeqBegin ==
    /\ gui.pc = "seq_begin"
    /\ current_switch_shard' = gui.s
    /\ shard_status' = StartShardStatus(shard_status, gui.s)
    /\ units' = StartShardRegistry(units, gui.s)
    /\ gui' = [gui EXCEPT !.pc = "spawn_read", !.i = 1, !.args = FormGet]
    /\ UNCHANGED <<budget, backoff, form, webhook_groups, message_counts, mode, monitors, monitor_failed>>

\* _stop_sequential_mode: the check before anything is stopped.
StopSequentialVerdict ==
    IF ~StatusGet(shard_status, current_switch_shard) THEN "not_running" ELSE "ok"

\* _stop_action in sequential mode -> _stop_sequential_mode, its check.
StopSequential ==
    /\ gui.pc = "idle"
    /\ mode = "sequential"
    /\ gui' = IF StopSequentialVerdict = "ok"
              THEN [GuiIdle EXCEPT !.pc = "seq_stop", !.op = "stopseq", !.res = "ok"]
              ELSE [GuiIdle EXCEPT !.res = StopSequentialVerdict]
    /\ UNCHANGED <<webhook_groups, shard_status, message_counts, units, current_switch_shard, mode,
                   monitors, monitor_failed>>

\* if self.current_switch_shard is not None: self._stop_shard(self.current_switch_shard),
\* up to the joins; when nothing is to be joined, self.current_switch_shard = None.
GuiSeqStop ==
    /\ gui.pc = "seq_stop"
    /\ LET s == current_switch_shard IN
         IF s = None \/ StopIsNoop(shard_status, s)
         THEN /\ current_switch_shard' = None
              /\ gui' = [GuiIdle EXCEPT !.op = "stopseq", !.res = gui.res]
              /\ UNCHANGED shard_status
         ELSE /\ shard_status' = StopShardStatus(shard_status, s)
              /\ gui' = [gui EXCEPT !.pc = "seq_join", !.s = s]
              /\ UNCHANGED current_switch_shard
    /\ UNCHANGED <<budget, backoff, form, webhook_groups, message_counts, units, mode, monitors, monitor_failed>>

\* _stop_shard after the joins, then self.current_switch_shard = None.
GuiSeqJoin ==
    /\ gui.pc = "seq_join"
    /\ units' = ClearRegistry(units, gui.s)
    /\ current_switch_shard' = None
    /\ gui' = [GuiIdle EXCEPT !.op = "stopseq", !.res = gui.res]
    /\ UNCHANGED <<webhook_groups, shard_status, message_counts, mode, monitors, monitor_failed>>

\* ---------------------------------------------------------------- rotation monitor
\* next_idx = (current_idx + 1) % len(shard_names); shard_names[next_idx]
IndexOf(name) == CHOOSE n \in DOMAIN shard_names : shard_names[n] = name

\* A successor that ends the run after the last shard.
NextShardStops(name) ==
    IF IndexOf(name) = Len(shard_names) THEN None ELSE shard_names[IndexOf(name) + 1]

\* A successor that stays on the last shard instead of wrapping.
NextShardNoWrap(name) ==
    shard_names[IF IndexOf(name) = Len(shard_names) THEN IndexOf(name) ELSE IndexOf(name) + 1]

NextShard(name) == shard_names[(IndexOf(name) % Len(shard_names)) + 1]

MonSet(m, rec) == [monitors EXCEPT ![m] = rec]

\* A monitor that resets the active shard when it leaves its loop.
MonLoopCheckClears(m) ==
    /\ m \in DOMAIN monitors
    /\ monitors[m].pc = "loop"
    /\ IF StatusGet(shard_status, current_switch_shard)
       THEN monitors' = MonSet(m, [monitors[m] EXCEPT !.pc = "urls"])
            /\ UNCHANGED current_switch_shard
       ELSE monitors' = RemoveAt(monitors, m) /\ current_switch_shard' = None
    /\ UNCHANGED <<budget, backoff, form, webhook_groups, shard_status, message_counts, units, mode, gui,
                   monitor_failed>>

\* while self.shard_status.get(self.current_switch_shard, False): the thread
\* returns when the flag is false; time.sleep(5) precedes every later check.
MonLoopCheck(m) ==
    /\ m \in DOMAIN monitors
    /\ monitors[m].pc = "loop"
    /\ monitors' = IF StatusGet(shard_status, current_switch_shard)
                   THEN MonSet(m, [monitors[m] EXCEPT !.pc = "urls"])
                   ELSE RemoveAt(monitors, m)
    /\ UNCHANGED <<budget, backoff, form, webhook_groups, shard_status, message_counts, units, current_switch_shard, mode, gui,
                   monitor_failed>>

\* webhook_urls = self.webhook_groups[self.current_switch_shard]: KeyError on None.
MonUrls(m) ==
    /\ m \in DOMAIN monitors
    /\ monitors[m].pc = "urls"
    /\ IF current_switch_shard \in Shards
       THEN /\ monitors' = MonSet(m, [monitors[m] EXCEPT !.pc = "sum",
                                                         !.urls = current_switch_shard])
            /\ UNCHANGED monitor_failed
       ELSE /\ monitors' = RemoveAt(monitors, m)
            /\ monitor_failed' = TRUE
    /\ UNCHANGED <<budget, backoff, form, webhook_groups, shard_status, message_counts, units, current_switch_shard, mode, gui>>

\* if total_messages >= self.total_pings
ThresholdMet(s) == SumCounts(GroupUrls(s), message_counts) >= total_pings

\* total_messages = sum(...) and the comparison with self.total_pings; below
\* the threshold the thread goes to time.sleep(5).
MonSum(m) ==
    /\ m \in DOMAIN monitors
    /\ monitors[m].pc = "sum"
    /\ monitors' = MonSet(m, [monitors[m] EXCEPT
                                 !.pc = IF ThresholdMet(monitors[m].urls) THEN "stop" ELSE "loop",
                                 !.urls = None])
    /\ UNCHANGED <<webhook_groups, shard_status, message_counts, units, current_switch_shard, mode, gui,
                   monitor_failed>>

\* self.total_pings in a configuration where it is above self.message_limit
\* (the defaults are 450000 and 9000): one webhook at its cap is below it.
HighTotalPings == message_limit + 1

\* The poll of MonSum when self.total_pings is n.
MonSumAt(n, m) ==
    /\ m \in DOMAIN monitors
    /\ monitors[m].pc = "sum"
    /\ monitors' = MonSet(m, [monitors[m] EXCEPT
                                 !.pc = IF SumCounts(GroupUrls(monitors[m].urls), message_counts) >= n
                                        THEN "stop" ELSE "loop",
                                 !.urls = None])
    /\ UNCHANGED <<webhook_groups, shard_status, message_counts, units, current_switch_shard, mode, gui,
                   monitor_failed>>

\* if self.current_switch_shard is not None: self._stop_shard(self.current_switch_shard),
\* up to the joins.
MonStop(m) ==
    /\ m \in DOMAIN monitors
    /\ monitors[m].pc = "stop"
    /\ LET s == current_switch_shard IN
         IF s = None \/ StopIsNoop(shard_status, s)
         THEN /\ monitors' = MonSet(m, [monitors[m] EXCEPT !.pc = "index"])
              /\ UNCHANGED shard_status
         ELSE /\ shard_status' = StopShardStatus(shard_status, s)
              /\ monitors' = MonSet(m, [monitors[m] EXCEPT !.pc = "join", !.s = s])
    /\ UNCHANGED <<budget, backoff, form, webhook_groups, message_counts, units, current_switch_shard, mode, gui, monitor_failed>>

\* _stop_shard after the joins: self.threads[shard_name] = [].
MonJoin(m) ==
    /\ m \in DOMAIN monitors
    /\ monitors[m].pc = "join"
    /\ units' = ClearRegistry(units, monitors[m].s)
    /\ monitors' = MonSet(m, [monitors[m] EXCEPT !.pc = "index", !.s = None])
    /\ UNCHANGED <<webhook_groups, shard_status, message_counts, current_switch_shard, mode, gui,
                   monitor_failed>>

\* current_idx = shard_names.index(self.current_switch_shard): ValueError on None;
\* next_idx = (current_idx + 1) % len(shard_names).
MonIndex(m) ==
    /\ m \in DOMAIN monitors
    /\ monitors[m].pc = "index"
    /\ IF current_switch_shard \in Shards
       THEN /\ monitors' = MonSet(m, [monitors[m] EXCEPT !.pc = "setcur",
                                                         !.nxt = NextShard(current_switch_shard)])
            /\ UNCHANGED monitor_failed
       ELSE /\ monitors' = RemoveAt(monitors, m)
            /\ monitor_failed' = TRUE
    /\ UNCHANGED <<budget, backoff, form, webhook_groups, shard_status, message_counts, units, current_switch_shard, mode, gui>>

\* self.current_switch_shard = shard_names[next_idx]
MonSetCurrent(m) ==
    /\ m \in DOMAIN monitors
    /\ monitors[m].pc = "setcur"
    /\ current_switch_shard' = monitors[m].nxt
    /\ monitors' = MonSet(m, [monitors[m] EXCEPT !.pc = "start", !.nxt = None])
    /\ UNCHANGED <<budget, backoff, form, webhook_groups, shard_status, message_counts, units, mode, gui, monitor_failed>>

\* self._start_shard(self.current_switch_shard), its first statements; with None
\* the flag of key None is set and self.webhook_groups[None] raises KeyError.
MonStartShard(m) ==
    /\ m \in DOMAIN monitors
    /\ monitors[m].pc = "start"
    /\ LET s == current_switch_shard IN
         /\ shard_status' = StartShardStatus(shard_status, s)
         /\ units' = StartShardRegistry(units, s)
         /\ IF s \in Shards
            THEN /\ monitors' = MonSet(m, [monitors[m] EXCEPT !.pc = "spawn_read",
                                                              !.s = s, !.i = 1, !.args = FormGet])
                 /\ UNCHANGED monitor_failed
            ELSE /\ monitors' = RemoveAt(monitors, m)
                 /\ monitor_failed' = TRUE
    /\ UNCHANGED <<budget, backoff, form, webhook_groups, message_counts, current_switch_shard, mode, gui>>

MonSpawnRead(m) ==
    /\ m \in DOMAIN monitors
    /\ monitors[m].pc = "spawn_read"
    /\ monitors' = MonSet(m, [monitors[m] EXCEPT
                                 !.pc = "spawn_write",
                                 !.loc = SpawnReadCount(GroupUrls(monitors[m].s)[monitors[m].i])])
    /\ UNCHANGED <<budget, backoff, form, webhook_groups, shard_status, message_counts, units, current_switch_shard, mode, gui,
                   monitor_failed>>

\* After the last thread of the shard: logger.info, time.sleep(5), loop check.
MonSpawnWrite(m) ==
    /\ m \in DOMAIN monitors
    /\ monitors[m].pc = "spawn_write"
    /\ LET r == monitors[m]
           u == GroupUrls(r.s)[r.i] IN
         /\ CanSpawn(u)
         /\ message_counts' = SpawnStore(message_counts, u, r.loc)
         /\ units' = SpawnThread(units, u, r.args)
         /\ monitors' = IF r.i = Len(GroupUrls(r.s))
                        THEN MonSet(m, NewMonitor)
                        ELSE MonSet(m, [r EXCEPT !.pc = "spawn_read", !.i = r.i + 1, !.loc = 0])
    /\ UNCHANGED <<budget, backoff, form, webhook_groups, shard_status, current_switch_shard, mode, gui, monitor_failed>>

\* ---------------------------------------------------------------- threads
UnitStep ==
    \E u \in AllUrls : \E k \in DOMAIN units[u] :
        \/ UnitLoopCheck(u, k)
        \/ \E r \in Responses : UnitResponse(u, k, r)
        \/ UnitWrite(u, k)

GuiStartStep == GuiStartShard \/ GuiSpawnRead \/ GuiSpawnWrite

MonitorStep ==
    \E m \in DOMAIN monitors :
        \/ MonLoopCheck(m) \/ MonUrls(m) \/ MonStop(m)
        \/ MonIndex(m) \/ MonSetCurrent(m) \/ MonStartShard(m)
        \/ MonSpawnRead(m) \/ MonSpawnWrite(m)

\* ---------------------------------------------------------------- bounded runs
\* The joins of a stop of shard s return with the threads still alive abandoned,
\* within the run's bound on abandoned threads.
JoinWithin(s) == leaked' = leaked + LiveRegistered(s) /\ leaked' <= MaxLeaks

\* Parallel mode, the mode the program starts in: the caller starts and stops
\* selections of shards.
ParStartCall ==
    /\ calls < MaxCalls
    /\ \E S \in SUBSET Shards : StartParallel(S)
    /\ calls' = calls + 1
    /\ UNCHANGED <<rotations, leaked, backoff, form>>

ParStopCall ==
    /\ calls < MaxCalls
    /\ \E S \in SUBSET Shards : StopParallel(S)
    /\ calls' = calls + 1
    /\ UNCHANGED <<rotations, leaked, backoff, form>>

ParJoin == GuiJoin /\ JoinWithin(gui.s) /\ UNCHANGED <<calls, rotations, backoff, form>>

Next == ParStartCall \/ ParStopCall \/ GuiStopShard \/ ParJoin \/ GuiStartStep \/ UnitStep

Spec == Init /\ [][Next]_vars

\* The 429 branch on its own: any response body, without retry_after or with
\* one of 0..MaxRetryAfter milliseconds.
Bodies == {EmptyBody} \cup {{<<"retry_after", n>>} : n \in 0..MaxRetryAfter}

InitBackoff ==
    /\ InitCore(PairMap)
    /\ mode = "parallel"
    /\ response_body \in Bodies
    /\ retry_after = NoWait
    /\ call = NoCall

NextBackoff == RateLimitWait

SpecBackoff == InitBackoff /\ [][NextBackoff]_vars

\* One call of _send_webhook on its own, against an endpoint whose 429 responses
\* carry the body chosen at the start and whose other outcomes are free.
InitCall ==
    /\ InitCore(PairMap)
    /\ mode = "parallel"
    /\ response_body \in Bodies
    /\ retry_after = NoWait
    /\ call = CallEnter

NextCall == (\E r \in Responses : CallAttempt(r)) \/ CallStore

SpecCall == InitCall /\ [][NextCall]_vars

\* One call of _send_webhook on its own for each value self.max_retries can
\* hold when the call begins, from no attempt to max_retries, against an
\* endpoint whose outcomes are free.
InitCycle ==
    /\ InitCore(PairMap)
    /\ mode = "parallel"
    /\ response_body \in Bodies
    /\ retry_after = NoWait
    /\ call \in {CycleEnter(n) : n \in 0..max_retries}

NextCycle == (\E r \in Responses : CycleAttempt(r)) \/ CallStore

SpecCycle == InitCycle /\ [][NextCycle]_vars

\* requests.post returns or raises, and the thread of the call is scheduled.
SpecCycleFair == SpecCycle /\ WF_vars(NextCycle)

\* Sequential mode only, from the state after "Sequential" was selected in the
\* mode box: the caller starts and stops sequential runs.
InitSeq == InitWith(PairMap) /\ mode = "sequential"

SeqStartCall ==
    /\ calls < MaxSeqCalls
    /\ \E s \in Shards : StartSequential(s)
    /\ calls' = calls + 1
    /\ UNCHANGED <<rotations, leaked, backoff, form>>

SeqStopCall ==
    /\ calls < MaxSeqCalls
    /\ StopSequential
    /\ calls' = calls + 1
    /\ UNCHANGED <<rotations, leaked, backoff, form>>

SeqGuiJoin == GuiSeqJoin /\ JoinWithin(gui.s) /\ UNCHANGED <<calls, rotations, backoff, form>>

\* A poll of a monitor: one that finds the threshold met begins a hand-off.
SeqMonSum ==
    \E m \in DOMAIN monitors :
        /\ MonSum(m)
        /\ rotations' = IF ThresholdMet(monitors[m].urls) THEN rotations + 1 ELSE rotations
        /\ rotations' <= MaxSeqRotations
        /\ UNCHANGED <<calls, leaked, backoff, form>>

MonJoinWithin ==
    \E m \in DOMAIN monitors :
        MonJoin(m) /\ JoinWithin(monitors[m].s) /\ UNCHANGED <<calls, rotations, backoff, form>>

NextSeq ==
    \/ SeqStartCall \/ SeqStopCall \/ GuiSeqBegin \/ GuiSeqStop \/ SeqGuiJoin
    \/ GuiSpawnRead \/ GuiSpawnWrite
    \/ UnitStep
    \/ MonitorStep \/ SeqMonSum \/ MonJoinWithin

SpecSeq == InitSeq /\ [][NextSeq]_vars

\* One sequential run over three shards that the caller starts and then leaves alone.
InitRot == InitWith(ThreeShardMap) /\ mode = "sequential"

RotStart ==
    /\ current_switch_shard = None
    /\ monitors = <<>>
    /\ \E s \in Shards : StartSequential(s)
    /\ UNCHANGED <<budget, backoff, form>>

RotMonSum == (\E m \in DOMAIN monitors : MonSum(m)) /\ UNCHANGED <<budget, backoff, form>>

NextRot ==
    \/ RotStart \/ GuiSeqBegin \/ GuiSpawnRead \/ GuiSpawnWrite
    \/ UnitStep
    \/ MonitorStep \/ RotMonSum \/ MonJoinWithin

SpecRot == InitRot /\ [][NextRot]_vars

\* The rotation of SpecRot with the scheduler being fair to every thread: the
\* GUI thread finishes the handler it is in, the monitor keeps polling, and a
\* delivery thread keeps running (a join that may no longer time out, MaxLeaks
\* being used up, returns when the threads it waits for have ended).
Fairness ==
    /\ WF_vars(GuiSeqBegin \/ GuiSpawnRead \/ GuiSpawnWrite)
    /\ WF_vars(MonitorStep \/ RotMonSum \/ MonJoinWithin)
    /\ \A u \in AllUrls : \A k \in 1..MaxUnits :
           WF_vars(k \in DOMAIN units[u] /\ (UnitLoopCheck(u, k) \/ UnitWrite(u, k)
                                             \/ \E r \in Responses : UnitResponse(u, k, r)))

SpecRotFair == SpecRot /\ Fairness

\* Both modes, with a caller who never stops anything, who starts shards in
\* parallel mode only before a sequential run, and who presses Start in
\* sequential mode only while a shard is running or before any sequential run.
BusySetMode == \E m \in {"parallel", "sequential"} : SetMode(m)

BusyStartParallel ==
    /\ calls < MaxBusyStarts
    /\ monitors = <<>> /\ current_switch_shard = None
    /\ \E S \in SUBSET Shards : StartParallel(S)
    /\ calls' = calls + 1
    /\ UNCHANGED <<rotations, leaked, backoff, form>>

BusyStartSequential ==
    /\ AnyRunning(shard_status) \/ (monitors = <<>> /\ current_switch_shard = None)
    /\ \E s \in Shards : StartSequential(s)
    /\ UNCHANGED <<budget, backoff, form>>

NextBusy ==
    \/ BusySetMode \/ BusyStartParallel \/ BusyStartSequential
    \/ GuiStartStep \/ GuiSeqBegin
    \/ UnitStep
    \/ MonitorStep \/ RotMonSum \/ MonJoinWithin

SpecBusy == Init /\ [][NextBusy]_vars

\* Parallel mode with shards that are started and never stopped, and endpoints
\* that answer every request with 204; the scheduler is fair to the GUI thread
\* and to every delivery thread.
SuccessStep(u, k) ==
    /\ k \in DOMAIN units[u]
    /\ UnitLoopCheck(u, k) \/ UnitResponse(u, k, "204") \/ UnitWrite(u, k)

SuccessUnitStep == \E u \in AllUrls : \E k \in DOMAIN units[u] : SuccessStep(u, k)

NextSuccess == ParStartCall \/ GuiStartStep \/ SuccessUnitStep

SpecSuccess == Init /\ [][NextSuccess]_vars

SuccessFairness ==
    /\ WF_vars(GuiStartStep)
    /\ \A u \in AllUrls : \A k \in 1..MaxUnits : WF_vars(SuccessStep(u, k))

SpecSuccessFair == SpecSuccess /\ SuccessFairness

\* One sequential run over WideMap that the caller starts and then leaves
\* alone, with self.total_pings above self.message_limit and every request
\* answered 204.
InitHigh == InitWith(WideMap) /\ mode = "sequential"

HighMonSum ==
    (\E m \in DOMAIN monitors : MonSumAt(HighTotalPings, m)) /\ UNCHANGED <<budget, backoff, form>>

NextHigh ==
    \/ RotStart \/ GuiSeqBegin \/ GuiSpawnRead \/ GuiSpawnWrite
    \/ SuccessUnitStep
    \/ MonitorStep \/ HighMonSum \/ MonJoinWithin

SpecHigh == InitHigh /\ [][NextHigh]_vars

\* SpecHigh with a scheduler that is fair to every thread of the run.
SpecHighFair ==
    /\ SpecHigh
    /\ WF_vars(GuiSeqBegin \/ GuiSpawnRead \/ GuiSpawnWrite)
    /\ WF_vars(MonitorStep \/ HighMonSum \/ MonJoinWithin)
    /\ \A u \in AllUrls : \A k \in 1..MaxUnits : WF_vars(SuccessStep(u, k))

\* Both modes, with a caller who switches modes at will, starts one sequential
\* run, starts shards in parallel mode before and during it, and never stops.
MixSetMode == \E m \in {"parallel", "sequential"} : SetMode(m)

MixStartParallel ==
    /\ calls < MaxMixCalls
    /\ \E S \in SUBSET Shards : StartParallel(S)
    /\ calls' = calls + 1
    /\ UNCHANGED <<rotations, leaked, backoff, form>>

MixStartSequential ==
    /\ current_switch_shard = None
    /\ monitors = <<>>
    /\ \E s \in Shards : StartSequential(s)
    /\ UNCHANGED <<budget, backoff, form>>

NextMix ==
    \/ MixSetMode \/ MixStartParallel \/ MixStartSequential
    \/ GuiStartStep \/ GuiSeqBegin
    \/ UnitStep
    \/ MonitorStep \/ RotMonSum \/ MonJoinWithin

SpecMix == Init /\ [][NextMix]_vars

\* Parallel mode with a caller who starts shards, never stops them, and edits
\* the Message, Username, Avatar URL and Delay entries between the starts.
FormStartCall ==
    /\ calls < MaxFormCalls
    /\ \E S \in SUBSET Shards : StartParallel(S)
    /\ calls' = calls + 1
    /\ UNCHANGED <<rotations, leaked, backoff, form>>

FormEdit ==
    \/ \E v \in Messages : SetMessageVar(v)
    \/ \E v \in Usernames : SetUsernameVar(v)
    \/ \E v \in Avatars : SetAvatarVar(v)
    \/ \E v \in Delays : SetDelayVar(v)

FormEditCall ==
    /\ calls < MaxFormCalls
    /\ FormEdit
    /\ calls' = calls + 1
    /\ UNCHANGED <<rotations, leaked, backoff>>

NextForm == FormStartCall \/ FormEditCall \/ GuiStartStep \/ UnitStep

SpecForm == Init /\ [][NextForm]_vars

\* Parallel mode with a caller who starts and stops shards, and joins that
\* return after their 5 s whatever the threads do: a delivery thread may stay
\* in requests.post, which has no timeout, for ever. The scheduler is fair to
\* the main thread only.
StopStartCall ==
    /\ calls < MaxStopCalls
    /\ \E S \in SUBSET Shards : StartParallel(S)
    /\ calls' = calls + 1
    /\ UNCHANGED <<rotations, leaked, backoff, form>>

StopStopCall ==
    /\ calls < MaxStopCalls
    /\ \E S \in SUBSET Shards : StopParallel(S)
    /\ calls' = calls + 1
    /\ UNCHANGED <<rotations, leaked, backoff, form>>

StopJoin == GuiJoin /\ UNCHANGED <<budget, backoff, form>>

NextStop == StopStartCall \/ StopStopCall \/ GuiStopShard \/ StopJoin \/ GuiStartStep \/ UnitStep

SpecStop == Init /\ [][NextStop]_vars

MainThreadFairness == WF_vars(GuiStopShard \/ StopJoin) /\ WF_vars(GuiStartStep)

SpecStopFair == SpecStop /\ MainThreadFairness

\* A single shard that the caller starts, stops and starts again, with joins
\* that may time out, a scheduler that is fair to the main thread and to every
\* delivery thread, and endpoints that answer every request.
UnitFairness ==
    \A u \in AllUrls : \A k \in 1..MaxUnits :
        WF_vars(k \in DOMAIN units[u] /\ (UnitLoopCheck(u, k) \/ UnitWrite(u, k)
                                          \/ \E r \in Responses : UnitResponse(u, k, r)))

InitCancel == InitWith(SoloMap) /\ mode = "parallel"

CancelStartCall ==
    /\ calls < MaxCancelCalls
    /\ \E S \in SUBSET Shards : StartParallel(S)
    /\ calls' = calls + 1
    /\ UNCHANGED <<rotations, leaked, backoff, form>>

CancelStopCall ==
    /\ calls < MaxCancelCalls
    /\ \E S \in SUBSET Shards : StopParallel(S)
    /\ calls' = calls + 1
    /\ UNCHANGED <<rotations, leaked, backoff, form>>

NextCancel ==
    CancelStartCall \/ CancelStopCall \/ GuiStopShard \/ StopJoin \/ GuiStartStep \/ UnitStep

SpecCancel == InitCancel /\ [][NextCancel]_vars

SpecCancelFair == SpecCancel /\ MainThreadFairness /\ UnitFairness

\* Sequential mode over a single shard, with a caller who starts a run while
\* nothing was delivered yet and nothing is left of an earlier run, and who
\* presses Stop at any time; the monitor rotates from the shard to itself.
InitHalt == InitWith(SoloMap) /\ mode = "sequential"

HaltStartCall ==
    /\ current_switch_shard = None
    /\ monitors = <<>>
    /\ \A u \in AllUrls : units[u] = <<>> /\ message_counts[u] = 0
    /\ \E s \in Shards : StartSequential(s)
    /\ UNCHANGED <<budget, backoff, form>>

HaltStopCall == StopSequential /\ UNCHANGED <<budget, backoff, form>>

NextHalt ==
    \/ HaltStartCall \/ HaltStopCall \/ GuiSeqBegin \/ GuiSeqStop \/ SeqGuiJoin
    \/ GuiSpawnRead \/ GuiSpawnWrite
    \/ UnitStep
    \/ MonitorStep \/ RotMonSum \/ MonJoinWithin

SpecHalt == InitHalt /\ [][NextHalt]_vars

\* Sequential mode over a single shard that the caller starts and then leaves
\* alone, with the fair scheduler of SpecRotFair; the hand-offs are counted up
\* to MaxSoloRotations.
SoloMonSum ==
    \E m \in DOMAIN monitors :
        /\ MonSum(m)
        /\ rotations' = IF ThresholdMet(monitors[m].urls) /\ rotations < MaxSoloRotations
                        THEN rotations + 1 ELSE rotations
        /\ UNCHANGED <<calls, leaked, backoff, form>>

NextSolo ==
    \/ HaltStartCall \/ GuiSeqBegin \/ GuiSpawnRead \/ GuiSpawnWrite
    \/ UnitStep
    \/ MonitorStep \/ SoloMonSum \/ MonJoinWithin

SpecSolo == InitHalt /\ [][NextSolo]_vars

SoloFairness ==
    /\ WF_vars(GuiSeqBegin \/ GuiSpawnRead \/ GuiSpawnWrite)
    /\ WF_vars(MonitorStep \/ SoloMonSum \/ MonJoinWithin)
    /\ \A u \in AllUrls : \A k \in 1..MaxUnits :
           WF_vars(k \in DOMAIN units[u] /\ (UnitLoopCheck(u, k) \/ UnitWrite(u, k)
                                             \/ \E r \in Responses : UnitResponse(u, k, r)))

SpecSoloFair == SpecSolo /\ SoloFairness

\* ---------------------------------------------------------------- properties
\* C1: for every target the delivery count never decreases: every step leaves
\* each count greater than or equal to its previous value.
CountsNeverDecrease == [][\A u \in AllUrls : message_counts'[u] >= message_counts[u]]_vars

\* C2: no target's delivery count ever exceeds the per-target message cap.
CountsWithinCap == \A u \in AllUrls : message_counts[u] <= message_limit

\* C3: a startConcurrent(S) with a shard of S already running is rejected as
\* "already running" and changes nothing: no flag, no count, no thread, no
\* registry entry, and the handler is over (nothing is started afterwards).
StartParallelRejectsWhole ==
    [][\A S \in SUBSET Shards :
          (StartParallel(S) /\ \E s \in S : shard_status[s])
          => /\ gui'.pc = "idle"
             /\ gui'.res = "already_running"
             /\ UNCHANGED <<shard_status, message_counts, units, current_switch_shard, monitors>>]_vars

\* C3 witness: the caller was just told "already running" while one shard runs
\* with its thread alive and another shard is stopped.
StartParallelRejected ==
    /\ gui.pc = "idle"
    /\ gui.op = "startpar"
    /\ gui.res = "already_running"
    /\ \E s \in Shards : shard_status[s] /\ \E u \in InShard(s) : LiveUnits(u) # <<>>
    /\ \E s \in Shards : ~shard_status[s]

\* C4: at every instant each target has at most one delivery thread alive.
OneUnitPerTarget == \A u \in AllUrls : Len(LiveUnits(u)) <= 1

\* C5: once stop(shard) has returned (the flag is false and no stop of the shard
\* is still joining), none of the shard's delivery threads is alive.
StoppedShardHasNoUnits ==
    \A s \in Shards :
        (~shard_status[s] /\ ~(gui.pc = "join" /\ gui.s = s))
        => \A u \in InShard(s) : LiveUnits(u) = <<>>

\* C10: a 429 response never ends the cycle and never uses up an attempt: the
\* unit is still in the attempt loop of the same cycle, with the same attempt
\* number, ready for the response that succeeds.
RateLimitKeepsCycle ==
    [][\A u \in AllUrls : \A k \in DOMAIN units[u] :
          UnitResponse(u, k, "429")
          => /\ units'[u][k].pc = "post"
             /\ units'[u][k].attempt = units[u][k].attempt]_vars

\* C6: in sequential mode at most one shard is running at any instant.
OneShardRunning == Cardinality({s \in Shards : shard_status[s]}) <= 1

\* C7: a startSequential while any shard is running is rejected as "already
\* running": active shard, flags, counts and threads are as before, no monitor
\* is launched, and the handler is over.
StartSequentialRejects ==
    [][\A s \in Shards :
          (StartSequential(s) /\ \E r \in Shards : shard_status[r])
          => /\ gui'.pc = "idle"
             /\ gui'.res = "already_running"
             /\ UNCHANGED <<current_switch_shard, shard_status, message_counts, units, monitors>>]_vars

\* C7 witness: startSequential was just rejected while a shard runs.
StartSequentialRejected ==
    /\ gui.pc = "idle"
    /\ gui.op = "startseq"
    /\ gui.res = "already_running"
    /\ \E s \in Shards : shard_status[s]

\* The shard after s in the configured order, the first one after the last.
Successor(s) ==
    LET n == CHOOSE i \in 1..Len(webhook_groups) : webhook_groups[i].name = s
    IN IF n = Len(webhook_groups) THEN webhook_groups[1].name ELSE webhook_groups[n + 1].name

\* C8: a rotation moves the active shard to its immediate successor in the
\* configured order, wrapping from the last shard to the first: the monitor
\* never sets any other shard.
RotationGoesToSuccessor ==
    [][/\ (current_switch_shard \in Shards /\ current_switch_shard' # current_switch_shard)
          => current_switch_shard' = Successor(current_switch_shard)
       /\ \A m \in DOMAIN monitors :
             MonSetCurrent(m) => current_switch_shard' = Successor(current_switch_shard)]_vars

\* C8 witness: the rotation has wrapped: the last shard delivered, and the
\* first shard is the running active shard again.
RotationWrapped ==
    /\ current_switch_shard = webhook_groups[1].name
    /\ shard_status[webhook_groups[1].name]
    /\ ThresholdMet(webhook_groups[Len(webhook_groups)].name)
    /\ monitors # <<>>

\* A sequential run is at its threshold: shard s is the running active shard
\* and its targets have delivered total_pings messages in all.
AtThreshold(s) ==
    /\ current_switch_shard = s
    /\ shard_status[s]
    /\ ThresholdMet(s)

\* C9: with no external stop and a fair scheduler, a run at its threshold leads
\* to the active shard stopped and its successor the running active shard.
ThresholdLeadsToRotation ==
    \A s \in AllShards :
        (s \in Shards /\ AtThreshold(s))
        ~> (current_switch_shard = Successor(s) /\ shard_status[Successor(s)] /\ ~shard_status[s])

\* C9 witness: a hand-off is over: the shard before the active one is stopped at
\* its threshold, and the active shard is running with a thread.
RotationDone ==
    \E s \in Shards :
        /\ ThresholdMet(s)
        /\ ~shard_status[s]
        /\ current_switch_shard = Successor(s)
        /\ shard_status[Successor(s)]
        /\ \E u \in InShard(Successor(s)) : LiveUnits(u) # <<>>

\* C11: the wait after a 429 is the body's retry_after taken as milliseconds
\* (retry_after / 1000 seconds) when the field is present, and the configured
\* back-off, in seconds and unscaled, when it is absent.
RetryAfterFollowsBody ==
    retry_after.den # 0
    => IF \E p \in response_body : p[1] = "retry_after"
       THEN \A p \in response_body :
                p[1] = "retry_after" => retry_after.num * 1000 = p[2] * retry_after.den
       ELSE retry_after.num = rate_limit_backoff * retry_after.den

\* C12: stop(shard) on a shard whose flag is already false is a no-op: it
\* returns at once (no join, no error) and leaves flags, registry and threads,
\* counts and the active shard as they were.
StopOfStoppedIsNoop ==
    [][(GuiStopShard /\ ~shard_status[Head(gui.todo)])
       => /\ UNCHANGED <<shard_status, units, message_counts, current_switch_shard, monitors,
                         monitor_failed>>
          /\ gui'.pc \in {"stop_shard", "idle"}
          /\ gui'.res = "ok"]_vars

\* C12 witness: _stop_shard is called on a shard that ran and was stopped before.
StopCalledOnStopped ==
    /\ gui.pc = "stop_shard"
    /\ ~shard_status[Head(gui.todo)]
    /\ \E u \in InShard(Head(gui.todo)) : message_counts[u] > 0

\* All threads of shard s have ended with their targets at the cap.
Drained(s) ==
    \A u \in InShard(s) :
        /\ units[u] # <<>>
        /\ LiveUnits(u) = <<>>
        /\ message_counts[u] >= message_limit

\* C13: a running shard whose threads have all ended at the cap eventually has
\* its flag false, without a stop.
DrainedShardStops ==
    \A s \in AllShards :
        (s \in Shards /\ shard_status[s] /\ Drained(s)) ~> (s \in Shards /\ ~shard_status[s])

\* C14: with endpoints that always answer 204 and no stop, every delivery
\* thread ends on its own, and then its target's count is exactly the cap.
UnitsEndAtCap ==
    \A u \in AllUrls :
        (LiveUnits(u) # <<>>)
        ~> (LiveUnits(u) = <<>> /\ message_counts[u] = message_limit)

\* C14 witness: two shards were started, the threads of both targets have ended
\* and both counts are at the cap.
BothTargetsAtCap ==
    /\ \A s \in Shards : \A u \in InShard(s) :
          units[u] # <<>> /\ LiveUnits(u) = <<>> /\ message_counts[u] = message_limit
    /\ Cardinality(Shards) >= 2

\* C15: a shard's flag is true if and only if one of its delivery threads is
\* alive; stated for the states in which no start or stop handler is under way.
RunningIffLiveUnit ==
    gui.pc = "idle"
    => \A s \in Shards : shard_status[s] <=> (\E u \in InShard(s) : LiveUnits(u) # <<>>)

\* A sequential run is active: the active shard is set and that shard or a
\* monitor is running.
SequentialRunActive ==
    /\ current_switch_shard \in Shards
    /\ shard_status[current_switch_shard] \/ monitors # <<>>

\* C16: while a sequential run is active, startConcurrent starts no shard: the
\* handler ends at its checks.
SequentialExcludesParallel ==
    [][\A S \in SUBSET Shards :
          (StartParallel(S) /\ SequentialRunActive) => gui'.pc = "idle"]_vars

\* C17: after an accepted stopSequential has completed (and until the next
\* request), no shard is running and no shard is the active one.
StopSequentialSettles ==
    (gui.pc = "idle" /\ gui.op = "stopseq" /\ gui.res = "ok")
    => /\ \A s \in Shards : ~shard_status[s]
       /\ current_switch_shard = None

\* C18: at most one monitor thread is alive at any time.
OneMonitor == Len(monitors) <= 1

\* C19: a name that is not in the shard map is never marked running.
OnlyKnownShardsRun == \A name \in DOMAIN shard_status : shard_status[name] => name \in Shards

\* The response r ends the cycle of thread k of u in failure: a rejected status,
\* or a transport error on the last attempt.
CycleFails(u, k, r) ==
    \/ r = "other"
    \/ r = "exception" /\ units[u][k].attempt = max_retries - 1

\* C20: a failed cycle is local: flags, counts and every other thread are as
\* before, the failing thread stays alive in its loop (_send_webhook returned
\* False), and its next loop check, with the shard running and the target
\* below the cap, begins another cycle.
FailedCycleIsLocal ==
    [][\A u \in AllUrls : \A k \in DOMAIN units[u] :
          /\ \A r \in {"other", "exception"} :
                (UnitResponse(u, k, r) /\ CycleFails(u, k, r))
                => /\ UNCHANGED <<shard_status, message_counts, monitors, current_switch_shard>>
                   /\ \A v \in AllUrls : DOMAIN units'[v] = DOMAIN units[v]
                   /\ \A v \in AllUrls : \A j \in DOMAIN units[v] :
                         (v # u \/ j # k) => units'[v][j] = units[v][j]
                   /\ units'[u][k].pc = "check"
                   /\ units'[u][k].ret = "False"
          /\ (UnitLoopCheck(u, k) /\ units[u][k].ret = "False"
              /\ shard_status[ShardOf(u)] /\ message_counts[u] < message_limit)
             => units'[u][k].pc = "post"]_vars

\* C20 witness: a thread is back in its loop after a failed cycle, its shard is
\* still running and a thread of another target is alive.
FailedCycleSeen ==
    \E u \in AllUrls : \E k \in DOMAIN units[u] :
        /\ units[u][k].pc = "check"
        /\ units[u][k].ret = "False"
        /\ u \in UNION {InShard(s) : s \in Shards}
        /\ shard_status[ShardOf(u)]
        /\ \E v \in AllUrls \ {u} : LiveUnits(v) # <<>>

\* The arguments of the live threads of a target, in the order of their start.
ArgsOf(q) == [i \in 1..Len(SelectSeq(q, IsLive)) |-> SelectSeq(q, IsLive)[i].args]

\* C21: message, username, avatar and delay of a delivery thread are those read
\* when its shard was started: no step changes the arguments of a live thread
\* (an edit of the form changes no thread at all), a thread joins a target's
\* threads only by a start, with the values the start read, and every request
\* under way and every delay sleep of a thread uses the thread's arguments.
UnitsUseCapturedForm ==
    [][/\ form' # form => (units' = units /\ gui.pc = "idle")
       /\ \A u \in AllUrls :
             \/ ArgsOf(units'[u]) = ArgsOf(units[u])
             \/ \E i \in DOMAIN ArgsOf(units[u]) : ArgsOf(units'[u]) = RemoveAt(ArgsOf(units[u]), i)
             \/ /\ gui.pc = "spawn_write"
                /\ gui.args = FormGet
                /\ ArgsOf(units'[u]) = Append(ArgsOf(units[u]), FormGet)
       /\ \A u \in AllUrls : \A k \in DOMAIN units'[u] :
             LET x == units'[u][k] IN
               IsLive(x) => /\ x.pc \in {"post", "write"} => x.payload = Payload(x.args)
                            /\ x.pc = "check" => x.payload = NoPayload
                            /\ x.ret # "none" => x.sleep = x.args.delay
                            /\ x.ret = "none" => x.sleep = NoWait]_vars

\* C21 witness: after an edit of the form a thread started before it is in a
\* request with the payload of the old values, or sleeps the old delay, while a
\* thread of another target, started after the edit, carries the new values.
OldAndNewForm ==
    \E u \in AllUrls : \E k \in DOMAIN units[u] : \E v \in AllUrls \ {u} : \E j \in DOMAIN units[v] :
        /\ IsLive(units[u][k]) /\ IsLive(units[v][j])
        /\ units[u][k].args = DEFAULT_CONFIG
        /\ units[u][k].args # FormGet
        /\ units[u][k].pc = "post"
        /\ units[u][k].payload # Payload(FormGet)
        /\ units[v][j].args = FormGet
        /\ units[v][j].pc = "post"

\* C22: no step of start(shard) or stop(shard) changes a target's count: after
\* every statement the main thread executes inside _start_shard or _stop_shard
\* each count is what it was before it.
StartStopKeepCounts ==
    [][(GuiStartShard \/ GuiSpawnRead \/ GuiSpawnWrite \/ GuiStopShard \/ GuiJoin)
       => \A u \in AllUrls : message_counts'[u] = message_counts[u]]_vars

\* C23: stop(shard) always completes, whatever its threads do: a stop under way
\* leads to the handler being over; the step that ends the joins ends no
\* thread (every thread alive before it is alive after it, unchanged but for
\* its place in the registry), leaves no thread of the shard in the registry,
\* and a thread dropped alive can still take its next step.
StopAlwaysCompletes ==
    /\ (gui.pc \in {"stop_shard", "join"}) ~> (gui.pc = "idle")
    /\ [][GuiJoin
          => /\ \A u \in AllUrls :
                   SelectSeq(units'[u], IsLive) =
                       IF u \in InShard(gui.s) THEN MapUnreg(SelectSeq(units[u], IsLive))
                       ELSE SelectSeq(units[u], IsLive)
             /\ \A u \in InShard(gui.s) : \A k \in DOMAIN units'[u] : ~units'[u][k].reg]_vars
    /\ [](\A u \in AllUrls : \A k \in 1..MaxUnits :
             (k \in DOMAIN units[u] /\ IsLive(units[u][k]) /\ ~units[u][k].reg)
             => ENABLED (UnitLoopCheck(u, k) \/ UnitWrite(u, k)
                         \/ \E r \in Responses : UnitResponse(u, k, r)))

\* C23 witness: a stop is over, its shard is stopped, and a thread of the shard
\* that the join did not see end is still in its request, outside the registry.
StoppedWithThreadAlive ==
    /\ gui.pc = "idle"
    /\ \E s \in Shards :
          /\ ~shard_status[s]
          /\ \E u \in InShard(s) : \E k \in DOMAIN units[u] :
                units[u][k].pc = "post" /\ ~units[u][k].reg
          /\ \A u \in InShard(s) : \A k \in DOMAIN units[u] : ~units[u][k].reg

\* C24: a count changes only by the store of a thread that received a 204, and
\* that store takes the count of the thread's own target to exactly one more
\* than it was, every other count staying as it is; a 429, a rejected status
\* and a transport failure change no count.
CountChangesBySuccessOnly ==
    [][/\ \A u \in AllUrls :
             message_counts'[u] # message_counts[u] => \E k \in DOMAIN units[u] : UnitWrite(u, k)
       /\ \A u \in AllUrls : \A k \in DOMAIN units[u] :
             UnitWrite(u, k)
             => /\ message_counts'[u] = message_counts[u] + 1
                /\ \A v \in AllUrls \ {u} : message_counts'[v] = message_counts[v]
       /\ \A u \in AllUrls : \A k \in DOMAIN units[u] : \A r \in Responses \ {"204"} :
             UnitResponse(u, k, r) => message_counts' = message_counts]_vars

\* The call that is followed has returned.
CallReturned == call.pc = "check" /\ call.ret # "none"

\* C25: a status other than 204 and 429 ends the cycle at once as a failure: it
\* is the last outcome of its call whatever attempts remain (no request follows
\* it), the call returns False, it adds no sleep, and the count is as before.
RejectedStatusEndsCycle ==
    /\ call.pc # "none"
       => \A i \in DOMAIN call.outcomes :
              call.outcomes[i] = "other"
              => /\ i = Len(call.outcomes)
                 /\ CallReturned
                 /\ call.ret = "False"
                 /\ message_counts[CallUrl] = 0
                 /\ Len(call.sleeps) = i - 1
    /\ call.pc = "post" => Len(call.outcomes) = call.attempt

\* C25 witness: the first request of a call was rejected with attempts left, and
\* the call has returned False after that single request.
RejectedOnFirstAttempt ==
    /\ call.pc # "none"
    /\ call.outcomes = <<"other">>
    /\ Len(call.outcomes) < max_retries
    /\ call.ret = "False"

\* Every request the followed call has issued ended in a transport failure.
OnlyTransportFailures ==
    call.pc # "none" /\ \A i \in DOMAIN call.outcomes : call.outcomes[i] = "exception"

\* C26: a cycle whose attempts all end in a transport failure issues exactly
\* max_retries requests (it has returned exactly when it has issued that many),
\* sleeps the back-off once after each failure but the last, and returns False
\* with the count as it was.
TransportFailuresExhaust ==
    OnlyTransportFailures
    => /\ Len(call.outcomes) <= max_retries
       /\ CallReturned <=> Len(call.outcomes) = max_retries
       /\ call.sleeps = [i \in 1..(IF CallReturned THEN max_retries - 1 ELSE Len(call.outcomes))
                            |-> [num |-> rate_limit_backoff, den |-> 1]]
       /\ CallReturned => call.ret = "False"
       /\ message_counts[CallUrl] = 0

\* C26 witness: a call has returned after max_retries transport failures, with
\* a back-off sleep between them.
AllAttemptsFailed ==
    /\ OnlyTransportFailures
    /\ CallReturned
    /\ Len(call.outcomes) = max_retries
    /\ Len(call.outcomes) >= 2
    /\ call.sleeps # <<>>

MonitorExitChangesNothing ==
    [][\A m \in DOMAIN monitors :
          (MonLoopCheck(m) /\ ~StatusGet(shard_status, current_switch_shard))
          => /\ monitors' = RemoveAt(monitors, m)
             /\ UNCHANGED <<current_switch_shard, shard_status, units, message_counts, gui,
                            monitor_failed, webhook_groups, mode>>]_vars

\* C28 witness: a sequential run was started and stopped, and its monitor is
\* gone without having failed: it left at a loop check; the stop reset the
\* active shard.
MonitorLeftAtLoopCheck ==
    /\ gui.pc = "idle" /\ gui.op = "stopseq" /\ gui.res = "ok"
    /\ monitors = <<>>
    /\ ~monitor_failed
    /\ \A s \in Shards : ~shard_status[s]
    /\ \E u \in AllUrls : message_counts[u] > 0

\* The only shard of the map.
Only == webhook_groups[1].name

\* The counts of the targets of the only shard add up to total_pings or more.
SoloTotalReached == SumOver(InShard(Only), message_counts) >= total_pings

\* C29: with a single shard and no external stop, once the shard's total has
\* reached the threshold it stays there (no hand-off resets a count), every
\* poll of the monitor begins a hand-off, and every hand-off stops the shard
\* (its flag was true and becomes false), keeps it as the active shard and
\* starts it again; under a fair scheduler a hand-off begun is completed and
\* the next poll begins another one.
SoloShardRestarts ==
    /\ [][/\ SoloTotalReached => SoloTotalReached'
          /\ \A m \in DOMAIN monitors :
                /\ (MonSum(m) /\ SoloTotalReached) => monitors'[m].pc = "stop"
                /\ MonStop(m) => (shard_status[Only] /\ ~shard_status'[Only])
                /\ MonSetCurrent(m)
                   => (current_switch_shard = Only /\ current_switch_shard' = Only)
                /\ MonStartShard(m)
                   => (~shard_status[Only] /\ shard_status'[Only] /\ current_switch_shard = Only)
                /\ (MonStop(m) \/ MonJoin(m) \/ MonIndex(m) \/ MonSetCurrent(m) \/ MonStartShard(m))
                   => message_counts' = message_counts]_vars
    /\ (\E m \in DOMAIN monitors : monitors[m].pc = "stop")
       ~> (\E m \in DOMAIN monitors : monitors[m].pc = "loop" /\ shard_status[Only]
                                       /\ current_switch_shard = Only)
    /\ (SoloTotalReached /\ \E m \in DOMAIN monitors : monitors[m].pc = "loop")
       ~> (\E m \in DOMAIN monitors : monitors[m].pc = "stop")

\* C29 witness: the monitor has completed a second hand-off: the only shard is
\* running again as the active shard, with a thread the hand-off started, and
\* its total is still at the threshold.
SoloRestartedTwice ==
    /\ SoloTotalReached
    /\ rotations >= 2
    /\ current_switch_shard = Only
    /\ shard_status[Only]
    /\ \E m \in DOMAIN monitors : monitors[m].pc = "loop"
    /\ \E u \in InShard(Only) : \E k \in DOMAIN units[u] :
          units[u][k].pc = "check" /\ units[u][k].ret = "none" /\ units[u][k].reg

\* The counts of the targets of the active shard add up to less than total_pings.
ActiveBelowThreshold ==
    /\ current_switch_shard \in Shards
    /\ SumOver(InShard(current_switch_shard), message_counts) < total_pings

\* C30: the monitor never rotates early: while the total of the active shard is
\* below the threshold no step of a monitor clears the flag of the active shard
\* or changes the active shard.
NoEarlyRotation ==
    [][\A m \in DOMAIN monitors :
          (ActiveBelowThreshold /\ (MonStop(m) \/ MonSetCurrent(m)))
          => /\ current_switch_shard' = current_switch_shard
             /\ shard_status'[current_switch_shard] = shard_status[current_switch_shard]]_vars

\* C31: every delivery cycle ends after at most as many requests as
\* self.max_retries held when it began, whatever the outcomes of its requests:
\* the requests issued never exceed the limit, a cycle that is still running
\* has issued fewer, a cycle entered with limit 0 has returned False without a
\* request, and every cycle returns and stays returned.
CycleEndsWithinLimit ==
    /\ [](Len(call.outcomes) <= call.limit)
    /\ [](call.pc = "post" => Len(call.outcomes) = call.attempt /\ call.attempt < call.limit)
    /\ [](call.limit = 0 => CallReturned /\ call.ret = "False" /\ call.outcomes = <<>>)
    /\ <>[]CallReturned

\* C31 witness: a cycle has used every attempt of a limit of two or more on
\* rate-limited responses and transport failures, and has returned False.
CycleUsedEveryAttempt ==
    /\ CallReturned
    /\ call.limit >= 2
    /\ Len(call.outcomes) = call.limit
    /\ \E i \in DOMAIN call.outcomes : call.outcomes[i] = "429"
    /\ \E i \in DOMAIN call.outcomes : call.outcomes[i] = "exception"
    /\ call.ret = "False"

\* C32: sequential rotation always makes progress: with no external stop, a
\* shard that is the running active shard leads to a hand-off, after which its
\* successor is the active shard.
RotationProgresses ==
    \A s \in {WideMap[n].name : n \in DOMAIN WideMap} :
        (current_switch_shard = s /\ shard_status[s] /\ monitors # <<>>)
        ~> (current_switch_shard = Successor(s) /\ Successor(s) # s)

\* C33: a stop of a selection S touches the shards of S only. The call is
\* rejected with nothing changed when no shard of S is running, and otherwise
\* takes up exactly the shards of S; each _stop_shard of the call changes the
\* flag of its own shard only and no count, and clears the registry of its own
\* shard only, so every shard outside S keeps its flag, its registered threads
\* and its counts.
StopTouchesSelectionOnly ==
    [][/\ \A S \in SUBSET Shards :
              StopParallel(S)
              => /\ UNCHANGED <<shard_status, units, message_counts, current_switch_shard, mode,
                                monitors, monitor_failed, form>>
                 /\ IF \E s \in S : shard_status[s]
                    THEN /\ gui'.pc = "stop_shard"
                         /\ {gui'.todo[n] : n \in DOMAIN gui'.todo} = S
                         /\ Len(gui'.todo) = Cardinality(S)
                    ELSE gui'.pc = "idle" /\ gui'.res = "not_running" /\ gui'.todo = <<>>
       /\ GuiStopShard
          => /\ \A s \in Shards \ {Head(gui.todo)} : shard_status'[s] = shard_status[s]
             /\ UNCHANGED <<units, message_counts, current_switch_shard, monitors>>
             /\ gui'.todo = Tail(gui.todo)
             /\ gui'.pc = "join" => gui'.s = Head(gui.todo)
       /\ GuiJoin
          => /\ UNCHANGED <<shard_status, message_counts, current_switch_shard, monitors>>
             /\ \A u \in AllUrls \ InShard(gui.s) : units'[u] = units[u]
             /\ gui'.todo = gui.todo]_vars

\* C33 witness: the stop of the selection {A} waits in the join of A while B,
\* outside the selection, is running with a registered thread alive and a
\* message delivered.
StopOfOneShardBesideAnother ==
    /\ gui.pc = "join" /\ gui.s = "A" /\ gui.todo = <<>>
    /\ ~shard_status["A"]
    /\ shard_status["B"]
    /\ \E k \in DOMAIN units["b1"] : IsLiveRegistered(units["b1"][k])
    /\ message_counts["b1"] > 0

\* C34: the monitor never fails: no monitor thread ends with an uncaught
\* exception, each of its reads of self.current_switch_shard that is used as a
\* key of the shard map or looked up in the shard ordering yielding a shard of
\* the map.
MonitorNeverFails == ~monitor_failed
====
